---------------------------- MODULE Spec2Model ----------------------------
(***************************************************************************)
(* Model of bentoml/adapters/json_output.py: the numpy-aware JSON encoder  *)
(* (NumpyJsonEncoder, jsonize) and the three output surfaces of            *)
(* JsonSerializableOutput (to_batch_response, to_cli,                      *)
(* to_aws_lambda_event).                                                   *)
(*                                                                         *)
(* Python values are tagged records [t |-> <python type>, ...].  Texts are *)
(* TLA+ strings; a Python str value carries its characters as a sequence   *)
(* of chunks so that the JSON string escaping can be computed.  An         *)
(* exception is named by its class; "" means that nothing was raised.      *)
(* The failure classes range over subclasses of Exception, and str() of a  *)
(* value is taken to return.  numpy scalars print as in numpy 1.x (the     *)
(* release line of the repository's time), where repr of a scalar is the   *)
(* repr of its native value.                                               *)
(***************************************************************************)
EXTENDS Integers, Sequences, FiniteSets, TLC

(***************************************************************************)
(* Bounds of the model.                                                    *)
(***************************************************************************)
MaxDepth == 2      \* container wrappers around a base value
MaxLen == 2        \* length of the flat lists among the base values
MaxCallers == 3    \* callers (slice selectors) of one batch
MaxResults == 2    \* entries of result_conc
MaxArgs == 2       \* command line tokens handed to to_cli

(***************************************************************************)
(* Python values.                                                          *)
(***************************************************************************)
PyNone == [t |-> "NoneType"]
PyBool(b) == [t |-> "bool", v |-> b]
PyInt(n) == [t |-> "int", v |-> n]
\* a float is held in tenths: PyFloat(35) is 3.5
PyFloat(tenths) == [t |-> "float", v |-> tenths]
\* a complex number <<re, im>> with integral parts
PyComplex(re, im) == [t |-> "complex", v |-> <<re, im>>]
PyStrVal(chars) == [t |-> "str", v |-> chars]
PyList(items) == [t |-> "list", v |-> items]
\* a dict is its (key, value) pairs in insertion order
PyDict(pairs) == [t |-> "dict", v |-> pairs]
NpInt64(n) == [t |-> "np.int64", v |-> n]
NpFloat64(tenths) == [t |-> "np.float64", v |-> tenths]
NpBool(b) == [t |-> "np.bool_", v |-> b]
NpComplex128(re, im) == [t |-> "np.complex128", v |-> <<re, im>>]
\* an int64 array: its shape and its buffer in row-major order
NdArray(shape, data) == [t |-> "np.ndarray", shape |-> shape, v |-> data]
\* an object whose serialization raises cls: a plain instance of a user
\* class for TypeError (no encoder knows it), a self-referential container
\* for ValueError, a container whose iteration asserts for AssertionError
PyObject(cls) == [t |-> "object", raises |-> cls]

FailureClasses == {"TypeError", "OverflowError", "ValueError", "AssertionError"}

NpGeneric == {"np.int64", "np.float64", "np.bool_", "np.complex128"}

(***************************************************************************)
(* Text helpers.                                                           *)
(***************************************************************************)
RECURSIVE Join(_, _)
Join(texts, sep) ==
    IF texts = <<>> THEN ""
    ELSE IF Len(texts) = 1 THEN texts[1]
    ELSE texts[1] \o sep \o Join(Tail(texts), sep)

Concat(chunks) == Join(chunks, "")

\* float.__repr__ of a float held in tenths
FloatRepr(tenths) ==
    LET a == IF tenths < 0 THEN 0 - tenths ELSE tenths
    IN (IF tenths < 0 THEN "-" ELSE "") \o ToString(a \div 10) \o "." \o ToString(a % 10)

ComplexRepr(c) ==
    "(" \o ToString(c[1]) \o (IF c[2] < 0 THEN "" ELSE "+") \o ToString(c[2]) \o "j)"

\* json.encoder's escaping of one character of a str (ensure_ascii; the
\* modelled characters are ASCII)
EscapeChar(c) ==
    IF c = "\"" THEN "\\\""
    ELSE IF c = "\\" THEN "\\\\"
    ELSE IF c = "\n" THEN "\\n"
    ELSE c

JsonString(chars) ==
    "\"" \o Concat([k \in 1..Len(chars) |-> EscapeChar(chars[k])]) \o "\""

(***************************************************************************)
(* numpy conversions used by NumpyJsonEncoder.default.                     *)
(***************************************************************************)
\* np.generic.item(): the native scalar of a numpy scalar
Item(o) ==
    CASE o.t = "np.int64" -> PyInt(o.v)
      [] o.t = "np.float64" -> PyFloat(o.v)
      [] o.t = "np.bool_" -> PyBool(o.v)
      [] o.t = "np.complex128" -> PyComplex(o.v[1], o.v[2])

\* row k of an array of the given shape over the buffer data
Row(shape, data, k) ==
    LET stride == Len(data) \div shape[1]
    IN SubSeq(data, (k - 1) * stride + 1, k * stride)

RECURSIVE ToListRec(_, _)
ToListRec(shape, data) ==
    IF shape = <<>> THEN PyInt(data[1])
    ELSE PyList([k \in 1..shape[1] |-> ToListRec(Tail(shape), Row(shape, data, k))])

\* np.ndarray.tolist(): the row-major nested list of native scalars
ToList(o) == ToListRec(o.shape, o.v)

(***************************************************************************)
(* str() and repr() of a value, as chunks of text.                         *)
(***************************************************************************)
RECURSIVE ArrayText(_, _, _, _)
\* the text of an array: elements joined by sep, rows by rowSep
ArrayText(shape, data, sep, rowSep) ==
    IF shape = <<>> THEN <<ToString(data[1])>>
    ELSE IF Len(shape) = 1
         THEN <<"[" \o Join([k \in 1..Len(data) |-> ToString(data[k])], sep) \o "]">>
    ELSE LET rows == [k \in 1..shape[1] |->
                         ArrayText(Tail(shape), Row(shape, data, k), sep, rowSep)]
             RECURSIVE Rows(_)
             Rows(k) == IF k > Len(rows) THEN <<>>
                        ELSE (IF k = 1 THEN <<>> ELSE rowSep) \o rows[k] \o Rows(k + 1)
         IN <<"[">> \o Rows(1) \o <<"]">>

\* str(array): "[[1 2]\n [3 4]]"
ArrayStr(o) == ArrayText(o.shape, o.v, " ", <<"\n", " ">>)

\* repr(array): "array([[1, 2],\n       [3, 4]])"
ArrayRepr(o) ==
    <<"array(">> \o ArrayText(o.shape, o.v, ", ", <<",", "\n", "       ">>) \o <<")">>

RECURSIVE PyRepr(_)
PyRepr(o) ==
    CASE o.t = "NoneType" -> <<"None">>
      [] o.t \in {"bool", "np.bool_"} -> <<IF o.v THEN "True" ELSE "False">>
      [] o.t \in {"int", "np.int64"} -> <<ToString(o.v)>>
      [] o.t \in {"float", "np.float64"} -> <<FloatRepr(o.v)>>
      [] o.t \in {"complex", "np.complex128"} -> <<ComplexRepr(o.v)>>
      [] o.t = "str" -> <<"'">> \o o.v \o <<"'">>
      [] o.t = "list" ->
           LET RECURSIVE Items(_)
               Items(k) == IF k > Len(o.v) THEN <<>>
                           ELSE (IF k = 1 THEN <<>> ELSE <<", ">>)
                                \o PyRepr(o.v[k]) \o Items(k + 1)
           IN <<"[">> \o Items(1) \o <<"]">>
      [] o.t = "dict" ->
           LET RECURSIVE Pairs(_)
               Pairs(k) == IF k > Len(o.v) THEN <<>>
                           ELSE (IF k = 1 THEN <<>> ELSE <<", ">>)
                                \o PyRepr(o.v[k][1]) \o <<": ">>
                                \o PyRepr(o.v[k][2]) \o Pairs(k + 1)
           IN <<"{">> \o Pairs(1) \o <<"}">>
      [] o.t = "np.ndarray" -> ArrayRepr(o)
      [] o.t = "object" -> <<"<", o.raises, " object>">>

\* str(o): the characters of a str, the blank-separated form of an array,
\* the repr of anything else
PyStr(o) ==
    CASE o.t = "str" -> o.v
      [] o.t = "np.ndarray" -> ArrayStr(o)
      [] OTHER -> PyRepr(o)

(***************************************************************************)
(* json.dumps(o, cls=NumpyJsonEncoder).  An outcome is                     *)
(* [exc |-> class or "", text |-> the JSON text].                          *)
(***************************************************************************)
\* on a raise, text is str(e), the failure's message
Returned(text) == [exc |-> "", text |-> text]
Raised(cls, msg) == [exc |-> cls, text |-> msg]

\* the message of the failure an object raises while it is serialized
ObjectMessage(cls) ==
    IF cls = "ValueError" THEN "Circular reference detected"
    ELSE cls \o " raised while serializing"

\* a mapping key: str, float (np.float64 is a float), bool, None and int
\* keys are written as strings; any other key is a TypeError
KeyText(key) ==
    CASE key.t = "str" -> Returned(JsonString(key.v))
      [] key.t \in {"float", "np.float64"} -> Returned(JsonString(<<FloatRepr(key.v)>>))
      [] key.t = "bool" -> Returned(JsonString(<<IF key.v THEN "true" ELSE "false">>))
      [] key.t = "NoneType" -> Returned(JsonString(<<"null">>))
      [] key.t = "int" -> Returned(JsonString(<<ToString(key.v)>>))
      [] OTHER -> Raised("TypeError",
                    "keys must be str, int, float, bool or None, not " \o key.t)

\* json.JSONEncoder.default: no encoder knows the object
NotSerializable(o) ==
    [exc |-> "TypeError", val |-> PyNone,
     text |-> "Object of type " \o o.t \o " is not JSON serializable"]

Converted(val) == [exc |-> "", val |-> val, text |-> ""]

\* NumpyJsonEncoder.default with the ndarray branch removed
DefaultNoArray(o) ==
    IF o.t \in NpGeneric THEN Converted(Item(o))
    ELSE NotSerializable(o)

\* NumpyJsonEncoder.default: [exc, val], val being the replacement to encode
Default(o) ==
    IF o.t \in NpGeneric THEN Converted(Item(o))
    ELSE IF o.t = "np.ndarray" THEN Converted(ToList(o))
    ELSE NotSerializable(o)

RECURSIVE Encode(_)
Encode(o) ==
    CASE o.t = "NoneType" -> Returned("null")
      [] o.t = "bool" -> Returned(IF o.v THEN "true" ELSE "false")
      [] o.t = "int" -> Returned(ToString(o.v))
      [] o.t \in {"float", "np.float64"} -> Returned(FloatRepr(o.v))
      [] o.t = "str" -> Returned(JsonString(o.v))
      [] o.t = "list" ->
           LET parts == [k \in 1..Len(o.v) |-> Encode(o.v[k])]
               bad == {k \in 1..Len(o.v) : parts[k].exc # ""}
           IN IF bad # {}
              THEN parts[CHOOSE k \in bad : \A j \in bad : k <= j]
              ELSE Returned("[" \o Join([k \in 1..Len(o.v) |-> parts[k].text], ", ") \o "]")
      [] o.t = "dict" ->
           LET keys == [k \in 1..Len(o.v) |-> KeyText(o.v[k][1])]
               vals == [k \in 1..Len(o.v) |-> Encode(o.v[k][2])]
               bad == {k \in 1..Len(o.v) : keys[k].exc # "" \/ vals[k].exc # ""}
               first == CHOOSE k \in bad : \A j \in bad : k <= j
           IN IF bad # {}
              THEN (IF keys[first].exc # "" THEN keys[first] ELSE vals[first])
              ELSE Returned("{" \o Join([k \in 1..Len(o.v) |->
                                keys[k].text \o ": " \o vals[k].text], ", ") \o "}")
      [] o.t = "object" /\ o.raises # "TypeError" ->
           Raised(o.raises, ObjectMessage(o.raises))
      [] OTHER ->
           LET d == Default(o)
           IN IF d.exc # "" THEN Raised(d.exc, d.text) ELSE Encode(d.val)

Dumps(o) == Encode(o)

\* the text of the except branch of jsonize: json.dumps({"result": str(result)})
FallbackText(result) ==
    Encode(PyDict(<< <<PyStrVal(<<"result">>), PyStrVal(PyStr(result))>> >>))

\* jsonize whose handler takes every failure class
JsonizeCatchAll(result) ==
    LET r == Dumps(result)
    IN IF r.exc # "" THEN FallbackText(result) ELSE r

\* jsonize without the handler
JsonizeNoCatch(result) == Dumps(result)

\* jsonize(result)
Jsonize(result) ==
    LET r == Dumps(result)
    IN IF r.exc \in {"TypeError", "OverflowError"} THEN FallbackText(result) ELSE r

(***************************************************************************)
(* The values the operations are applied to.                               *)
(***************************************************************************)
Grid22 == NdArray(<<2, 2>>, <<1, 2, 3, 4>>)
QuotedText == PyStrVal(<<"a", "\"", "b">>)
DictX1 == PyDict(<< <<PyStrVal(<<"x">>), PyInt(1)>> >>)

NativeAtoms ==
    {PyNone, PyBool(TRUE), PyInt(1), PyFloat(35), PyStrVal(<<"a">>), QuotedText}

NumpyAtoms ==
    {NpInt64(7), NpFloat64(35), NpBool(FALSE), NpComplex128(1, 2),
     NdArray(<<>>, <<5>>), NdArray(<<2>>, <<1, 2>>), Grid22}

ObjectAtoms == {PyObject(cls) : cls \in FailureClasses}

Atoms == NativeAtoms \cup NumpyAtoms \cup ObjectAtoms

\* the members of the flat lists
ListAtoms ==
    {PyInt(1), NpInt64(7), Grid22, PyObject("TypeError"), PyObject("ValueError")}

FlatLists ==
    {PyList(items) : items \in UNION {[1..n -> ListAtoms] : n \in 0..MaxLen}}

\* the keys of the mappings: text, native int, numpy int, numpy float
KeyAtoms == {PyStrVal(<<"k">>), PyInt(1), NpInt64(7), NpFloat64(35)}

KeyDicts == {PyDict(<< <<key, PyInt(2)>> >>) : key \in KeyAtoms}

BaseValues == Atoms \cup FlatLists \cup KeyDicts

\* one more container around the values of S
Wrap(S) ==
    {PyList(<<x>>) : x \in S}
    \cup {PyList(<<PyInt(1), x>>) : x \in S}
    \cup {PyDict(<< <<PyStrVal(<<"k">>), x>> >>) : x \in S}

RECURSIVE Nested(_)
Nested(d) == IF d = 0 THEN BaseValues ELSE BaseValues \cup Wrap(Nested(d - 1))

\* the inputs of jsonize
Values == Nested(MaxDepth)

\* the inputs of to_cli and to_aws_lambda_event
SampleValues ==
    {DictX1, QuotedText, PyInt(1), NpFloat64(35), Grid22, NpComplex128(1, 2),
     PyList(<<PyInt(1), Grid22>>)} \cup ObjectAtoms

\* the entries of result_conc: two encodable results, one failing with
\* AssertionError, one with another class, two the encoder absorbs
BatchValueSeq ==
    <<DictX1, Grid22, PyObject("AssertionError"), PyObject("ValueError"),
      PyObject("TypeError"), PyObject("OverflowError")>>

\* n entries of BatchValueSeq from position k on, wrapping around
Run(k, n) == [j \in 1..n |-> BatchValueSeq[((k + j - 2) % Len(BatchValueSeq)) + 1]]

ResultCollections ==
    {Run(k, n) : k \in 1..Len(BatchValueSeq), n \in 0..MaxResults}

\* a slice selector: the absence marker or an index, -1 being the last
\* entry (range selectors, whose fetch cannot fail, are left out)
Selectors == {PyNone} \cup {PyInt(k) : k \in (0 - 1)..(MaxResults - 1)}

SliceLists == UNION {[1..n -> Selectors] : n \in 0..MaxCallers}

(***************************************************************************)
(* SimpleResponse(status, headers, data)                                   *)
(***************************************************************************)
SimpleResponse(status, headers, data) ==
    [t |-> "SimpleResponse", status |-> status, headers |-> headers, data |-> data]

ContentTypeJson == [t |-> "tuple", v |-> << <<"Content-Type", "application/json">> >>]

\* the fallback response an earlier stage prepared for the caller at pos
FallbackResponse(pos) ==
    SimpleResponse(400, PyNone, "fallback of caller " \o ToString(pos))

\* fallbacks as the batching layer builds them for slices: a response
\* where the selector is the absence marker, None elsewhere
AlignedFallbacks(sl) ==
    [k \in 1..Len(sl) |-> IF sl[k].t # "NoneType" THEN PyNone ELSE FallbackResponse(k)]

\* fallbacks with a response at every one of n entries
FullFallbacks(n) == [k \in 1..n |-> FallbackResponse(k)]

\* the fallbacks arguments tried with slices sl: omitted, aligned, and
\* full lists one shorter, as long and one longer than sl
FallbackArgs(sl) ==
    {PyNone, PyList(AlignedFallbacks(sl))}
    \cup {PyList(FullFallbacks(n)) : n \in {m \in (Len(sl) - 1)..(Len(sl) + 1) : m >= 0}}

(***************************************************************************)
(* State: one call of the adapter, its inputs and what it left behind.     *)
(* The adapter keeps nothing between calls, so a behaviour is one call: it *)
(* starts with the inputs chosen and ends returned or raised.              *)
(***************************************************************************)
VARIABLES
    pc,           \* "call", "returned" or "raised"
    op,           \* the function called
    result,       \* jsonize, to_cli, to_aws_lambda_event: the result argument
    result_conc,  \* to_batch_response: the argument, a list
    slices,       \* to_batch_response: the argument, a list or None (omitted)
    fallbacks,    \* to_batch_response: the argument, a list or None (omitted)
    responses,    \* to_batch_response: the local list when the call ended
    fetched,      \* positions whose result_conc[s] was evaluated
    encoded,      \* positions for which jsonize was invoked
    args,         \* to_cli: the command line tokens
    cors,         \* to_aws_lambda_event: self.cors
    stdout,       \* the texts written to standard output
    stderr,       \* the texts written to standard error
    ret,          \* the value returned
    exc           \* the exception that left the call: [cls, text]

vars == <<pc, op, result, result_conc, slices, fallbacks, responses, fetched,
          encoded, args, cors, stdout, stderr, ret, exc>>

NoException == [cls |-> "", text |-> ""]
Exception(cls, text) == [cls |-> cls, text |-> text]
\* a returned text
Text(s) == [t |-> "text", v |-> s]
\* a returned mapping
Mapping(f) == [t |-> "mapping", v |-> f]

(***************************************************************************)
(* jsonize called on its own.                                              *)
(***************************************************************************)
JsonizeCall ==
    /\ pc = "call"
    /\ op = "jsonize"
    /\ \E r \in {Jsonize(result)} :
          /\ pc' = IF r.exc = "" THEN "returned" ELSE "raised"
          /\ ret' = IF r.exc = "" THEN Text(r.text) ELSE PyNone
          /\ exc' = IF r.exc = "" THEN NoException ELSE Exception(r.exc, r.text)
    /\ UNCHANGED <<op, result, result_conc, slices, fallbacks, responses, fetched,
                   encoded, args, cors, stdout, stderr>>

(***************************************************************************)
(* to_batch_response                                                       *)
(***************************************************************************)
\* slices when omitted: [i for i, _ in enumerate(result_conc)]
DefaultSlices(rc) == [k \in 1..Len(rc) |-> PyInt(k - 1)]

\* fallbacks when omitted: [None] * len(slices)
DefaultFallbacks(sl) == [k \in 1..Len(sl) |-> PyNone]

\* responses sized by fallbacks
InitialResponsesByFallbacks(rc, sl, fb) == [k \in 1..Len(fb) |-> PyNone]

\* responses = [None] * len(slices)
InitialResponses(rc, sl, fb) == [k \in 1..Len(sl) |-> PyNone]

\* pairs up to the longer list, the shorter one padded with None
ZipLongest(sl, fb) ==
    [k \in 1..(IF Len(sl) < Len(fb) THEN Len(fb) ELSE Len(sl)) |->
        <<IF k <= Len(sl) THEN sl[k] ELSE PyNone,
          IF k <= Len(fb) THEN fb[k] ELSE PyNone>>]

\* zip(slices, fallbacks): pairs up to the shorter list
Zip(sl, fb) ==
    [k \in 1..(IF Len(sl) < Len(fb) THEN Len(sl) ELSE Len(fb)) |-> <<sl[k], fb[k]>>]

\* result_conc[s] for a list and an integer s: a negative s counts from the
\* end, an s outside the list raises IndexError
Fetch(rc, s) ==
    LET n == Len(rc)
        idx == IF s.v < 0 THEN s.v + n ELSE s.v
    IN IF idx < 0 \/ idx >= n
       THEN [exc |-> "IndexError", text |-> "list index out of range", val |-> PyNone]
       ELSE [exc |-> "", text |-> "", val |-> rc[idx + 1]]

\* the try statement with the two handlers exchanged
RespondSwapped(value) ==
    LET j == Jsonize(value)
    IN IF j.exc = "" THEN SimpleResponse(200, ContentTypeJson, j.text)
       ELSE IF j.exc = "AssertionError" THEN SimpleResponse(500, PyNone, j.text)
       ELSE SimpleResponse(400, PyNone, j.text)

\* the try statement answering with the plain text of the result
RespondPlain(value) == SimpleResponse(200, ContentTypeJson, Concat(PyStr(value)))

\* the try statement of the loop body: the response for a fetched result
Respond(value) ==
    LET j == Jsonize(value)
    IN IF j.exc = "" THEN SimpleResponse(200, ContentTypeJson, j.text)
       ELSE IF j.exc = "AssertionError" THEN SimpleResponse(400, PyNone, j.text)
       ELSE SimpleResponse(500, PyNone, j.text)

RECURSIVE Loop(_, _, _, _)
\* the for statement from pair i on; acc is [responses, fetched, encoded,
\* exc]; positions are counted from 1
Loop(rc, pairs, i, acc) ==
    IF i > Len(pairs) THEN acc
    ELSE LET s == pairs[i][1]
             f == pairs[i][2]
         IN IF s.t = "NoneType"
            THEN Loop(rc, pairs, i + 1, [acc EXCEPT !.responses[i] = f])
            ELSE LET r == Fetch(rc, s)
                 IN IF r.exc # ""
                    THEN [acc EXCEPT !.fetched = @ \cup {i},
                                     !.exc = Exception(r.exc, r.text)]
                    ELSE Loop(rc, pairs, i + 1,
                              [acc EXCEPT !.responses[i] = Respond(r.val),
                                          !.fetched = @ \cup {i},
                                          !.encoded = @ \cup {i}])

\* the whole call: [responses, fetched, encoded, exc] when it ends
BatchOutcome(rc, sl, fb) ==
    LET sl1 == IF sl.t = "NoneType" THEN DefaultSlices(rc.v) ELSE sl.v
        fb1 == IF fb.t = "NoneType" THEN DefaultFallbacks(sl1) ELSE fb.v
    IN Loop(rc.v, Zip(sl1, fb1), 1,
            [responses |-> InitialResponses(rc.v, sl1, fb1),
             fetched |-> {}, encoded |-> {}, exc |-> NoException])

ToBatchResponse ==
    /\ pc = "call"
    /\ op = "to_batch_response"
    /\ \E end \in {BatchOutcome(result_conc, slices, fallbacks)} :
          /\ responses' = end.responses
          /\ fetched' = end.fetched
          /\ encoded' = end.encoded
          /\ exc' = end.exc
          /\ pc' = IF end.exc = NoException THEN "returned" ELSE "raised"
          /\ ret' = IF end.exc = NoException THEN PyList(end.responses) ELSE PyNone
    /\ UNCHANGED <<op, result, result_conc, slices, fallbacks, args, cors, stdout, stderr>>

(***************************************************************************)
(* to_cli                                                                  *)
(***************************************************************************)
Tokens == {"-o", "--output", "json", "str", "xml", "-h"}
OptionTokens == {"-o", "--output", "-h"}
OutputChoices == {"str", "json"}

ArgLists == UNION {[1..n -> Tokens] : n \in 0..MaxArgs}

ParsedOk(output) == [status |-> "ok", output |-> output, text |-> ""]
ParsedError(msg) == [status |-> "error", output |-> "", text |-> msg]
ParsedHelp == [status |-> "help", output |-> "", text |-> ""]

RECURSIVE ParseFrom(_, _, _, _)
\* argparse consuming a[p..]: output is the value of -o/--output so far,
\* extras the tokens no argument takes
ParseFrom(a, p, output, extras) ==
    IF p > Len(a)
    THEN IF extras # <<>>
         THEN ParsedError("unrecognized arguments: " \o Join(extras, " "))
         ELSE ParsedOk(output)
    ELSE IF a[p] = "-h" THEN ParsedHelp
    ELSE IF a[p] \in {"-o", "--output"}
         THEN IF p = Len(a) \/ a[p + 1] \in OptionTokens
              THEN ParsedError("argument -o/--output: expected one argument")
              ELSE IF a[p + 1] \notin OutputChoices
              THEN ParsedError("argument -o/--output: invalid choice: '" \o a[p + 1]
                               \o "' (choose from 'str', 'json')")
              ELSE ParseFrom(a, p + 2, a[p + 1], extras)
    ELSE ParseFrom(a, p + 1, output, Append(extras, a[p]))

\* parser.parse_args(args), the default of --output being "str"
ParseArgs(a) == ParseFrom(a, 1, "str", <<>>)

UsageText == "usage: [-h] [-o {str,json}]"

\* the text to print, with the two modes exchanged
CliTextSwapped(value, output) ==
    IF output = "json" THEN Returned(Concat(PyStr(value))) ELSE Jsonize(value)

\* the text to print for a parsed output mode
CliText(value, output) ==
    IF output = "json" THEN Jsonize(value) ELSE Returned(Concat(PyStr(value)))

ToCli ==
    /\ pc = "call"
    /\ op = "to_cli"
    /\ ret' = PyNone
    /\ \E parsed \in {ParseArgs(args)} :
          \/ /\ parsed.status = "error"
             \* parser.error: usage and message on stderr, then sys.exit(2)
             /\ stderr' = <<UsageText \o "\n", "error: " \o parsed.text \o "\n">>
             /\ stdout' = stdout
             /\ exc' = Exception("SystemExit", "2")
             /\ pc' = "raised"
          \/ /\ parsed.status = "help"
             \* the help action: help on stdout, then sys.exit(0)
             /\ stdout' = <<UsageText \o "\n">>
             /\ stderr' = stderr
             /\ exc' = Exception("SystemExit", "0")
             /\ pc' = "raised"
          \/ /\ parsed.status = "ok"
             /\ \E out \in {CliText(result, parsed.output)} :
                   IF out.exc # ""
                   THEN \* jsonize raised: nothing is printed
                        /\ UNCHANGED <<stdout, stderr>>
                        /\ exc' = Exception(out.exc, out.text)
                        /\ pc' = "raised"
                   ELSE \* print(result)
                        /\ stdout' = Append(stdout, out.text \o "\n")
                        /\ stderr' = stderr
                        /\ exc' = NoException
                        /\ pc' = "returned"
    /\ UNCHANGED <<op, result, result_conc, slices, fallbacks, responses, fetched,
                   encoded, args, cors>>

(***************************************************************************)
(* to_aws_lambda_event                                                     *)
(***************************************************************************)
\* self.cors: None, the empty text, or an origin
CorsValues ==
    {PyNone, PyStrVal(<<>>), PyStrVal(<<"*">>), PyStrVal(<<"https://example.com">>)}

\* bool(o) of None or a str
Truthy(o) == IF o.t = "NoneType" THEN FALSE ELSE o.v # <<>>

\* the mapping returned for the encoded body and self.cors
Event(body, c) ==
    IF Truthy(c)
    THEN Mapping([statusCode |-> 200, body |-> body,
                  headers |-> ("Access-Control-Allow-Origin" :> Concat(c.v))])
    ELSE Mapping([statusCode |-> 200, body |-> body])

ToAwsLambdaEvent ==
    /\ pc = "call"
    /\ op = "to_aws_lambda_event"
    /\ \E r \in {Jsonize(result)} :
          IF r.exc # ""
          THEN /\ ret' = PyNone
               /\ exc' = Exception(r.exc, r.text)
               /\ pc' = "raised"
          ELSE /\ ret' = Event(r.text, cors)
               /\ exc' = NoException
               /\ pc' = "returned"
    /\ UNCHANGED <<op, result, result_conc, slices, fallbacks, responses, fetched,
                   encoded, args, cors, stdout, stderr>>

(***************************************************************************)
(* The specification: the inputs are chosen, then the call runs.           *)
(***************************************************************************)
\* the slices arguments: omitted, or a list of selectors
SliceArgs == {PyNone} \cup {PyList(l) : l \in SliceLists}

Init ==
    /\ pc = "call"
    /\ responses = <<>>
    /\ fetched = {}
    /\ encoded = {}
    /\ stdout = <<>>
    /\ stderr = <<>>
    /\ ret = PyNone
    /\ exc = NoException
    /\ \/ /\ op = "jsonize"
          /\ result \in Values
          /\ result_conc = PyNone /\ slices = PyNone /\ fallbacks = PyNone
          /\ args = <<>> /\ cors = PyNone
       \/ /\ op = "to_batch_response"
          /\ \E rc \in ResultCollections, sl \in SliceArgs :
                /\ result_conc = PyList(rc)
                /\ slices = sl
                /\ fallbacks \in FallbackArgs(IF sl.t = "NoneType"
                                               THEN DefaultSlices(rc) ELSE sl.v)
          /\ result = PyNone /\ args = <<>> /\ cors = PyNone
       \/ /\ op = "to_cli"
          /\ result \in SampleValues
          /\ args \in ArgLists
          /\ result_conc = PyNone /\ slices = PyNone /\ fallbacks = PyNone
          /\ cors = PyNone
       \/ /\ op = "to_aws_lambda_event"
          /\ result \in SampleValues
          /\ cors \in CorsValues
          /\ result_conc = PyNone /\ slices = PyNone /\ fallbacks = PyNone
          /\ args = <<>>

Next == JsonizeCall \/ ToBatchResponse \/ ToCli \/ ToAwsLambdaEvent

Spec == Init /\ [][Next]_vars

(***************************************************************************)
(* Vocabulary of the properties.                                           *)
(***************************************************************************)
Absorbed == {"TypeError", "OverflowError"}

IsBatch == op = "to_batch_response"
Ended == pc # "call"

\* the slices and fallbacks the call works on, defaults applied
Slices1 == IF slices.t = "NoneType" THEN DefaultSlices(result_conc.v) ELSE slices.v
Fallbacks1 == IF fallbacks.t = "NoneType" THEN DefaultFallbacks(Slices1) ELSE fallbacks.v

Absent(i) == Slices1[i].t = "NoneType"

\* whether the selector of position i addresses an entry of result_conc
InRange(i) ==
    /\ ~Absent(i)
    /\ Slices1[i].v >= 0 - Len(result_conc.v)
    /\ Slices1[i].v < Len(result_conc.v)

\* the entry of result_conc position i selects
ValueAt(i) ==
    result_conc.v[(IF Slices1[i].v < 0 THEN Slices1[i].v + Len(result_conc.v)
                   ELSE Slices1[i].v) + 1]

\* the positions the loop reaches when nothing aborts it
Covered == 1..(IF Len(Slices1) < Len(Fallbacks1) THEN Len(Slices1) ELSE Len(Fallbacks1))

\* the response of position i taken on its own
OwnResponse(i) ==
    IF Absent(i) THEN Fallbacks1[i]
    ELSE IF Jsonize(ValueAt(i)).exc = ""
         THEN SimpleResponse(200, ContentTypeJson, Jsonize(ValueAt(i)).text)
    ELSE IF Jsonize(ValueAt(i)).exc = "AssertionError"
         THEN SimpleResponse(400, PyNone, Jsonize(ValueAt(i)).text)
    ELSE SimpleResponse(500, PyNone, Jsonize(ValueAt(i)).text)

RECURSIVE Native(_)
\* the equivalent native value: every numpy scalar replaced by its native
\* scalar, every array by its nested list, keys included
Native(o) ==
    CASE o.t \in NpGeneric -> Item(o)
      [] o.t = "np.ndarray" -> ToList(o)
      [] o.t = "list" -> PyList([k \in 1..Len(o.v) |-> Native(o.v[k])])
      [] o.t = "dict" -> PyDict([k \in 1..Len(o.v) |->
                                   <<Native(o.v[k][1]), Native(o.v[k][2])>>])
      [] OTHER -> o

RECURSIVE BuiltFrom(_, _, _)
\* o is built from values of the types in scalars and from arrays, lists
\* and mappings whose keys have a type in keys
BuiltFrom(o, scalars, keys) ==
    CASE o.t = "list" -> \A k \in 1..Len(o.v) : BuiltFrom(o.v[k], scalars, keys)
      [] o.t = "dict" -> \A k \in 1..Len(o.v) :
                            /\ o.v[k][1].t \in keys
                            /\ BuiltFrom(o.v[k][2], scalars, keys)
      [] o.t = "np.ndarray" -> TRUE
      [] OTHER -> o.t \in scalars

NativeScalars == {"NoneType", "bool", "int", "float", "str"}
NativeKeys == {"NoneType", "bool", "int", "float", "str"}
RealNumpyScalars == {"np.int64", "np.float64", "np.bool_"}

(***************************************************************************)
(* C1                                                                      *)
(***************************************************************************)
\* C1: in a batch where some callers fail, at the fetch or at the encoding,
\* to_batch_response still returns: every position with a selector holds a
\* response object and every position holds the response it would hold on
\* its own.  (Several callers, the fallbacks covering each of them.)
C1_FailuresStayWithTheirCaller ==
    (/\ IsBatch /\ Ended
     /\ Len(Slices1) >= 2
     /\ Len(Fallbacks1) >= Len(Slices1)
     /\ \E i \in 1..Len(Slices1) :
           ~Absent(i) /\ (~InRange(i) \/ Dumps(ValueAt(i)).exc # ""))
    => /\ pc = "returned"
       /\ \A i \in 1..Len(Slices1) :
             /\ ~Absent(i) => ret.v[i].t = "SimpleResponse"
             /\ InRange(i) \/ Absent(i) => ret.v[i] = OwnResponse(i)

(***************************************************************************)
(* C2                                                                      *)
(***************************************************************************)
\* C2: with slices and fallbacks of equal length, the output at a position
\* whose selector is None is that position's fallback and jsonize is not
\* invoked for it; at any other position, when jsonize returns, it is the
\* 200 response with the Content-Type header and the jsonize text as body.
C2_ResponseByPosition ==
    (IsBatch /\ pc = "returned" /\ Len(Fallbacks1) = Len(Slices1))
    => /\ Len(ret.v) = Len(Slices1)
       /\ \A i \in 1..Len(Slices1) :
             IF Absent(i)
             THEN ret.v[i] = Fallbacks1[i] /\ i \notin encoded
             ELSE Jsonize(ValueAt(i)).exc = ""
                  => ret.v[i] = [t |-> "SimpleResponse", status |-> 200,
                                 headers |-> ContentTypeJson,
                                 data |-> Jsonize(ValueAt(i)).text]

\* selectors [0, None, 1] over [A, B] with fallbacks [None, F, None] gave
\* [response(A), F, response(B)]
C2_Witness ==
    /\ IsBatch /\ pc = "returned"
    /\ result_conc = PyList(<<DictX1, Grid22>>)
    /\ slices = PyList(<<PyInt(0), PyNone, PyInt(1)>>)
    /\ fallbacks = PyList(<<PyNone, FallbackResponse(2), PyNone>>)
    /\ ret = PyList(<<SimpleResponse(200, ContentTypeJson, "{\"x\": 1}"),
                      FallbackResponse(2),
                      SimpleResponse(200, ContentTypeJson, "[[1, 2], [3, 4]]")>>)

(***************************************************************************)
(* C3                                                                      *)
(***************************************************************************)
\* C3 as stated: jsonize never raises; whenever the standard encoding
\* fails, whatever the class, it returns the text of {"result": str(value)}.
C3_JsonizeNeverRaises ==
    (op = "jsonize" /\ Ended)
    => /\ pc = "returned"
       /\ Dumps(result).exc # "" => ret = Text(FallbackText(result).text)

\* C3 amended: when the standard encoding fails with TypeError or
\* OverflowError jsonize returns the text of {"result": str(value)}; a
\* failure of any other class leaves jsonize as it was raised.
C3_JsonizeAbsorbsTypeAndOverflow ==
    (op = "jsonize" /\ Ended)
    => /\ Dumps(result).exc \in Absorbed
            => pc = "returned" /\ ret = Text(FallbackText(result).text)
       /\ Dumps(result).exc \notin Absorbed \cup {""}
            => /\ pc = "raised"
               /\ exc = Exception(Dumps(result).exc, Dumps(result).text)

\* a list holding an object no encoder knows came back string-wrapped
C3_Witness ==
    /\ op = "jsonize" /\ pc = "returned"
    /\ result = PyList(<<PyInt(1), PyObject("TypeError")>>)
    /\ ret = Text("{\"result\": \"[1, <TypeError object>]\"}")

(***************************************************************************)
(* C4                                                                      *)
(***************************************************************************)
\* C4: a position whose jsonize raised AssertionError holds the response
\* (400, no headers, the failure's text); one whose jsonize raised anything
\* else holds (500, no headers, the failure's text).
C4_FailureStatus ==
    (IsBatch /\ Ended)
    => \A i \in encoded :
          LET j == Jsonize(ValueAt(i))
          IN /\ j.exc = "AssertionError"
                  => responses[i] = [t |-> "SimpleResponse", status |-> 400,
                                     headers |-> PyNone, data |-> j.text]
             /\ j.exc \notin {"", "AssertionError"}
                  => responses[i] = [t |-> "SimpleResponse", status |-> 500,
                                     headers |-> PyNone, data |-> j.text]

\* three callers, the second one failing validation: 200, 400, 200, each
\* with its own body
C4_Witness ==
    /\ IsBatch /\ pc = "returned"
    /\ result_conc = PyList(<<Grid22, PyObject("AssertionError")>>)
    /\ slices = PyList(<<PyInt(0), PyInt(1), PyInt(0)>>)
    /\ ret = PyList(<<SimpleResponse(200, ContentTypeJson, "[[1, 2], [3, 4]]"),
                      SimpleResponse(400, PyNone, "AssertionError raised while serializing"),
                      SimpleResponse(200, ContentTypeJson, "[[1, 2], [3, 4]]")>>)

(***************************************************************************)
(* C5                                                                      *)
(***************************************************************************)
\* C5: the returned sequence is as long as the slices, or as result_conc
\* when slices is omitted, whatever the selectors and the fallbacks.
C5_OneResponsePerCaller ==
    (IsBatch /\ pc = "returned")
    => Len(ret.v) = (IF slices.t = "NoneType" THEN Len(result_conc.v) ELSE Len(slices.v))

\* absent and present selectors mixed, fallbacks longer than slices
C5_Witness ==
    /\ IsBatch /\ pc = "returned"
    /\ slices = PyList(<<PyNone, PyInt(0)>>)
    /\ fallbacks = PyList(FullFallbacks(3))
    /\ Len(ret.v) = 2

(***************************************************************************)
(* C6                                                                      *)
(***************************************************************************)
\* C6 as stated: for a value built from native JSON values, numpy scalars
\* and numpy arrays, jsonize returns the text of the equivalent native value
\* and the string-wrapped fallback is not used.
C6_NumpyEncodesAsNative ==
    (/\ op = "jsonize" /\ Ended
     /\ BuiltFrom(result, NativeScalars \cup NpGeneric, NativeKeys \cup NpGeneric))
    => /\ pc = "returned"
       /\ ret = Text(Jsonize(Native(result)).text)
       /\ Dumps(result).exc = ""

\* C6 amended: the same, for numpy scalars of boolean, integer and float
\* type that are not used as mapping keys.
C6_RealNumpyEncodesAsNative ==
    (/\ op = "jsonize" /\ Ended
     /\ BuiltFrom(result, NativeScalars \cup RealNumpyScalars, NativeKeys))
    => /\ pc = "returned"
       /\ ret = Text(Jsonize(Native(result)).text)
       /\ Dumps(result).exc = ""

\* the 2x2 grid, two containers deep
C6_Witness ==
    /\ op = "jsonize" /\ pc = "returned"
    /\ result = PyDict(<< <<PyStrVal(<<"k">>), PyList(<<PyInt(1), Grid22>>)>> >>)
    /\ ret = Text("{\"k\": [1, [[1, 2], [3, 4]]]}")

(***************************************************************************)
(* C7                                                                      *)
(***************************************************************************)
\* C7: the returned mapping has statusCode 200 and the jsonize text as
\* body, and has headers, {Access-Control-Allow-Origin: cors}, exactly when
\* cors is not None.
C7_HeadersIffCorsNotNone ==
    (op = "to_aws_lambda_event" /\ pc = "returned")
    => /\ ret.v.statusCode = 200
       /\ ret.v.body = Jsonize(result).text
       /\ "headers" \in DOMAIN ret.v <=> cors.t # "NoneType"
       /\ "headers" \in DOMAIN ret.v
            => ret.v.headers = ("Access-Control-Allow-Origin" :> Concat(cors.v))

(***************************************************************************)
(* C8                                                                      *)
(***************************************************************************)
JsonModeArgs == {<<"-o", "json">>, <<"--output", "json">>}
StrModeArgs == {<<>>, <<"-o", "str">>, <<"--output", "str">>}
BadModeArgs == {<<"-o", "xml">>, <<"--output", "xml">>}

\* C8 as stated: on a recognized mode exactly one text is written, the
\* jsonize text for json, str(result) for str or no flag; on another mode a
\* usage error is reported and nothing is written.
C8_CliWritesOneText ==
    (op = "to_cli" /\ Ended)
    => /\ args \in JsonModeArgs \cup StrModeArgs => pc = "returned" /\ Len(stdout) = 1
       /\ args \in JsonModeArgs => stdout = <<Jsonize(result).text \o "\n">>
       /\ args \in StrModeArgs => stdout = <<Concat(PyStr(result)) \o "\n">>
       /\ args \in BadModeArgs
            => stdout = <<>> /\ stderr # <<>> /\ exc.cls = "SystemExit"

\* C8 amended: in json mode the text is written when jsonize returns; when
\* jsonize raises, nothing is written and the failure leaves to_cli.
C8_CliWritesOneTextUnlessJsonizeRaises ==
    (op = "to_cli" /\ Ended)
    => /\ args \in JsonModeArgs /\ Jsonize(result).exc = ""
            => pc = "returned" /\ stdout = <<Jsonize(result).text \o "\n">>
       /\ args \in JsonModeArgs /\ Jsonize(result).exc # ""
            => pc = "raised" /\ stdout = <<>> /\ exc.cls = Jsonize(result).exc
       /\ args \in StrModeArgs
            => pc = "returned" /\ stdout = <<Concat(PyStr(result)) \o "\n">>
       /\ args \in BadModeArgs
            => /\ pc = "raised" /\ exc = Exception("SystemExit", "2")
               /\ stdout = <<>> /\ stderr # <<>>

\* --output json on {"x": 1} printed {"x": 1}
C8_Witness ==
    /\ op = "to_cli" /\ pc = "returned"
    /\ args = <<"--output", "json">>
    /\ result = DictX1
    /\ stdout = <<"{\"x\": 1}\n">>

(***************************************************************************)
(* C9                                                                      *)
(***************************************************************************)
\* C9: a position whose result fails the standard encoding with TypeError
\* or OverflowError holds the 200 response with the Content-Type header and
\* the text of {"result": str(result)}; a position holding 400 or 500 had a
\* failure of another class.
C9_AbsorbedFailuresAnswer200 ==
    (IsBatch /\ Ended)
    => \A i \in encoded :
          /\ Dumps(ValueAt(i)).exc \in Absorbed
               => responses[i] = [t |-> "SimpleResponse", status |-> 200,
                                  headers |-> ContentTypeJson,
                                  data |-> FallbackText(ValueAt(i)).text]
          /\ responses[i].status \in {400, 500}
               => Dumps(ValueAt(i)).exc \notin Absorbed \cup {""}

\* an object no encoder knows, answered 200 with its text wrapped
C9_Witness ==
    /\ IsBatch /\ pc = "returned"
    /\ result_conc = PyList(<<PyObject("TypeError"), PyObject("OverflowError")>>)
    /\ slices = PyNone
    /\ ret = PyList(<<SimpleResponse(200, ContentTypeJson,
                                     "{\"result\": \"<TypeError object>\"}"),
                      SimpleResponse(200, ContentTypeJson,
                                     "{\"result\": \"<OverflowError object>\"}")>>)

(***************************************************************************)
(* C10                                                                     *)
(***************************************************************************)
\* C10: with fewer fallbacks than slices, only the first len(fallbacks)
\* callers are processed: every later position is None, also under a valid
\* selector, its result is neither fetched nor encoded, and the output is
\* still as long as slices.
C10_ShortFallbacksCutTheLoop ==
    (IsBatch /\ Ended /\ Len(Fallbacks1) < Len(Slices1))
    => /\ Len(responses) = Len(Slices1)
       /\ fetched \cup encoded \subseteq Covered
       /\ \A i \in (Len(Fallbacks1) + 1)..Len(Slices1) : responses[i] = PyNone
       /\ pc = "returned" => ret = PyList(responses)

\* the second caller selects a valid entry and is returned as None
C10_Witness ==
    /\ IsBatch /\ pc = "returned"
    /\ result_conc = PyList(<<DictX1, Grid22>>)
    /\ slices = PyList(<<PyInt(0), PyInt(1)>>)
    /\ fallbacks = PyList(FullFallbacks(1))
    /\ ret = PyList(<<SimpleResponse(200, ContentTypeJson, "{\"x\": 1}"), PyNone>>)

=============================================================================
